---- MODULE Spec2Model ----
(***************************************************************************)
(* A model of react-context-selector: the store made by                    *)
(* createSelectContext (state, listeners, setState, subscribe,             *)
(* getSnapshot) and the selector binding made by useContextSelector (the   *)
(* getSnapshot callback handed to useSyncExternalStore, with its           *)
(* previousSelectedStateRef).                                              *)
(*                                                                         *)
(* JavaScript is single threaded: a call of setState runs its whole        *)
(* notification pass before it returns.  The pass is modelled step by      *)
(* step with an explicit call stack, so that what a listener does while    *)
(* the pass is running (a nested setState, a subscribe, an unsubscribe, a  *)
(* throw) is part of the model.                                            *)
(***************************************************************************)
EXTENDS Integers, Sequences, FiniteSets, TLC

\* ------------------------------------------------------------------ bounds
\* capabilities not yet called that the callers hold of one callback
MaxCaps == 2

\* ------------------------------------------------------------------ values
\* A JavaScript value a selector can return: null, an array with an
\* identity (id) and a length, or one of the numbers NaN, +0 and -0.  Arrays
\* are immutable by convention, so an identity has one length.
Null == [k |-> "null", id |-> 0, len |-> 0]
Arr(i, n) == [k |-> "arr", id |-> i, len |-> n]
Empty0 == Arr(1, 0)
One1 == Arr(2, 1)
One2 == Arr(3, 1)
NaN == [k |-> "nan", id |-> 0, len |-> 0]
PosZero == [k |-> "+0", id |-> 0, len |-> 0]
NegZero == [k |-> "-0", id |-> 0, len |-> 0]
Numbers == {NaN, PosZero, NegZero}
Values == {Null, Empty0, One1, One2} \cup Numbers

\* The store's state: an object with two fields.
InitialState == [a |-> One1, b |-> One1]

\* The transition functions handed to setState: state => state,
\* state => ({...state, a: v}), state => ({...state, b: v}), and
\* state => ({a: v, b: w}) with w the value of {One1, One2} that b is not.
Fns == {[f |-> "same", v |-> Null]}
         \cup [f : {"a", "both"}, v : Values] \cup [f : {"b"}, v : {One1, One2}]

\* The transitions the callers of the store alone use.
StoreFns == {[f |-> "same", v |-> Null], [f |-> "a", v |-> Empty0], [f |-> "a", v |-> One1]}

ApplyFn(fn, s) ==
  CASE fn.f = "same" -> s
    [] fn.f = "a" -> [s EXCEPT !.a = fn.v]
    [] fn.f = "b" -> [s EXCEPT !.b = fn.v]
    [] fn.f = "both" -> [a |-> fn.v, b |-> IF s.b = One1 THEN One2 ELSE One1]

\* ---------------------------------------------------------------- callbacks
\* The listeners of the two selector bindings (React's store-change handler
\* of each hook instance) and two callbacks subscribed directly.
Bindings == {"b1", "b2"}
Raw == {"x", "y"}
Callbacks == Bindings \cup Raw
NoCb == "none"
\* The callbacks whose body may call setState; such a callback does not call
\* it while a call of itself is already running.
Reentrant == {"x"}
\* The callbacks subscribed several times over, and whose capabilities are
\* kept after a call and called again; the others are subscribed and
\* unsubscribed the way React does it, once each.
Reusers == {"x"}

\* ------------------------------------------------------- Set<() => void>
\* store.listeners is a JavaScript Set: unique values in insertion order.
\* It is kept as the list of its present values; a running forEach holds the
\* position of the value it visits next, which a delete before it moves.
Members(ls) == {ls[i] : i \in 1..Len(ls)}

Size(ls) == Len(ls)

\* A faulty add, for testing the properties: an array push.
SetAddPush(ls, c) == Append(ls, c)

\* A faulty delete, for testing the properties: the closure deletes a value
\* other than the one that was added, so nothing goes.
SetDeleteNothing(ls, c) == ls

\* A faulty delete, for testing the properties:
\* array.splice(array.indexOf(c), 1), which drops the last value when c is
\* absent.
SetDeleteSplice(ls, c) ==
  IF \E i \in 1..Len(ls) : ls[i] = c
  THEN SelectSeq(ls, LAMBDA e : e # c)
  ELSE SubSeq(ls, 1, Len(ls) - 1)

\* listeners.add(c)
SetAdd(ls, c) == IF c \in Members(ls) THEN ls ELSE Append(ls, c)

\* listeners.delete(c)
SetDelete(ls, c) == SelectSeq(ls, LAMBDA e : e # c)

\* The position of c in the list, 0 when absent.
Position(ls, c) ==
  IF c \in Members(ls) THEN CHOOSE i \in 1..Len(ls) : ls[i] = c ELSE 0

\* A faulty forEach, for testing the properties: an iteration by index over
\* an array, which a delete before the index does not move.
IdxUnmoved(idx, p) == idx

\* The position a forEach at idx holds once the value at position p is gone.
IdxAfterDelete(idx, p) == IF p > 0 /\ idx > p THEN idx - 1 ELSE idx

\* forEach at position idx: the value it visits next, NoCb when it is done.
ForEachNext(ls, idx) == IF idx <= Len(ls) THEN ls[idx] ELSE NoCb

\* ------------------------------------------------------- selector binding
\* options.compare of a binding: absent ("default"), or a caller's predicate
\* that compares lengths and takes null for an empty list:
\*   (prev, next) => (prev?.length ?? 0) === (next?.length ?? 0)
CompareOptions == {"default", "sameLength"}

\* A faulty default, for testing the properties: (prev, next) => prev === next,
\* for which NaN differs from NaN and +0 equals -0.
StrictEquals(x, y) ==
  IF x.k = "nan" \/ y.k = "nan" THEN FALSE
  ELSE IF x.k \in {"+0", "-0"} /\ y.k \in {"+0", "-0"} THEN TRUE
  ELSE x.k = y.k /\ x.id = y.id

\* Object.is on these values (SameValue): the same primitive, NaN being NaN
\* and +0 not being -0, or the same reference.
ObjectIs(x, y) == x.k = y.k /\ x.id = y.id

\* x?.length ?? 0
LengthOrZero(x) == IF x.k = "arr" THEN x.len ELSE 0

SameLength(p, n) == LengthOrZero(p) = LengthOrZero(n)

\* A faulty resolution, for testing the properties: const compare =
\* options.compare, which is undefined when the option is absent.
CompareFnRequired(opt) == IF opt = "default" THEN "undefined" ELSE opt

\* const compare = options.compare ?? Object.is
CompareFn(opt) == IF opt = "default" THEN "Object.is" ELSE opt

\* compare(p, n)
Compare(opt, p, n) ==
  IF CompareFn(opt) = "Object.is" THEN ObjectIs(p, n) ELSE SameLength(p, n)

\* The debug option of a store or of a binding: absent, { name, enabled:
\* false } or { name, enabled: true }.
DebugOptions == {"absent", "disabled", "enabled"}

\* The event debugLogger prints as one console group.
LogEvent(logger, name, status, prevState, nextState, n) ==
  [logger |-> logger, name |-> name, status |-> status, prev |-> prevState,
   next |-> nextState, listeners |-> n]

\* The selector of each binding: state => state.a, state => state.b.
Selector(b, s) == IF b = "b1" THEN s.a ELSE s.b

\* A faulty callback, for testing the properties: when compare finds the
\* value changed it returns the new value and leaves the ref as it was.
GetSnapshotCallbackKeepsRef(b, opt, prev, s) ==
  IF prev = [k |-> "null", id |-> 0, len |-> 0]
  THEN [ref |-> Selector(b, s), ret |-> Selector(b, s), path |-> "initial"]
  ELSE IF Compare(opt, prev, Selector(b, s))
       THEN [ref |-> prev, ret |-> prev, path |-> "same"]
       ELSE [ref |-> prev, ret |-> Selector(b, s), path |-> "new"]

\* The getSnapshot callback given to useSyncExternalStore, run with
\* previousSelectedStateRef.current = prev on store state s: the new value
\* of the ref, the value returned and the branch taken.
GetSnapshotCallback(b, opt, prev, s) ==
  LET nextSelectedState == Selector(b, s) IN
  IF prev # Null
  THEN IF CompareFn(opt) = "undefined"
       THEN [ref |-> prev, ret |-> prev, path |-> "TypeError"]
       ELSE IF ~Compare(opt, prev, nextSelectedState)
            THEN [ref |-> nextSelectedState, ret |-> nextSelectedState,
                  path |-> "new"]
            ELSE [ref |-> prev, ret |-> prev, path |-> "same"]
  ELSE [ref |-> nextSelectedState, ret |-> nextSelectedState, path |-> "initial"]

\* A faulty logging, for testing the properties: the callback of an earlier
\* version, which also logs when compare finds no change.
SelectorDebugLogSame(b, dbg, mode, r, n) ==
  IF dbg = "enabled" /\ mode
  THEN CASE r.path = "new" ->
              <<LogEvent("selector", b, "New Selected State", r.ref, r.ret, n)>>
         [] r.path = "same" ->
              <<LogEvent("selector", b, "No New Selected State", r.ref, r.ret, n)>>
         [] r.path = "initial" ->
              <<LogEvent("selector", b, "Initial Render", Null, r.ret, n)>>
         [] OTHER -> <<>>
  ELSE <<>>

\* What the getSnapshot callback of binding b logs on a run with result r,
\* with n listeners in the store: if (options.debug?.enabled &&
\* isDevelopment()) debugLogger(...).  On the "new" branch prevState is read
\* from the ref after the ref was assigned.
SelectorDebugLog(b, dbg, mode, r, n) ==
  IF dbg = "enabled" /\ mode
  THEN CASE r.path = "new" ->
              <<LogEvent("selector", b, "New Selected State", r.ref, r.ret, n)>>
         [] r.path = "initial" ->
              <<LogEvent("selector", b, "Initial Render", Null, r.ret, n)>>
         [] OTHER -> <<>>
  ELSE <<>>

\* A faulty server snapshot, for testing the properties: the getSnapshot
\* callback given a second time.
ServerSnapshotViaClient(b, opt, prev, s) == GetSnapshotCallback(b, opt, prev, s)

\* The server snapshot callback given to useSyncExternalStore:
\* () => selector(store.getSnapshot()).
ServerSnapshotCallback(b, opt, prev, s) ==
  [ref |-> prev, ret |-> Selector(b, s), path |-> "server"]

\* A faulty check, for testing the properties: no check.
UseContextUnchecked(provided) == "none"

\* const store = useContext(Context); if (!store) throw new Error(...)
UseContextCheck(provided) ==
  IF provided THEN "none" ELSE "Context Provider is missing"

\* ------------------------------------------------------------------- state
VARIABLES
  state,      \* store.state
  listeners,  \* store.listeners
  stack,      \* the call stack: setState passes and the callbacks they run
  exc,        \* an exception is propagating to the frame on top of the stack
  caps,       \* per callback: the unsubscribe capabilities callers hold
  bphase,     \* per binding: "idle", "rendered", "subscribed"
  bopt,       \* per binding: its compare option
  bref,       \* per binding: previousSelectedStateRef.current
  bret,       \* per binding: the value its getSnapshot callback returned last
  bdebug,     \* per binding: its debug option
  dev,        \* isDevelopment(): process.env.NODE_ENV === 'development'
  sdebug,     \* store.debug: the debug option the store was created with
  ev          \* what the last step did (history)

vars ==
  <<state, listeners, stack, exc, caps, bphase, bopt, bref, bret, bdebug,
    dev, sdebug, ev>>

\* A frame of the call stack.  A "pass" frame is a running setState: the
\* state it was given (from) and the state its transition produced (next),
\* the position of forEach (idx), and the history of the pass: the callbacks
\* registered from its start until now (due), how often each callback was
\* invoked (count), whether a nested setState has replaced the state since
\* (reentered), and what each binding had returned last when the pass began
\* (was).  A "listener" frame is a running callback: the state it found
\* (seen), whether a subscription of it was in force when it was invoked
\* (member), and how its last nested setState went (nested).
\* A faulty setState, for testing the properties: it returns without
\* notifying when the transition returned the state it was given.
PassFrameIfChanged(nextState, prevState, ls) ==
  [kind |-> "pass", cb |-> "none",
   idx |-> IF nextState = prevState THEN Len(ls) + 1 ELSE 1,
   from |-> prevState, next |-> nextState,
   due |-> {ls[i] : i \in 1..Len(ls)},
   count |-> [c \in {"b1", "b2", "x", "y"} |-> 0], reentered |-> FALSE,
   was |-> bret, seen |-> nextState, member |-> TRUE, nested |-> "none"]

\* A faulty setState, for testing the properties: it does not notify while
\* another pass is running.
PassFrameUnlessRunning(nextState, prevState, ls) ==
  [kind |-> "pass", cb |-> "none",
   idx |-> IF stack # <<>> THEN Len(ls) + 1 ELSE 1,
   from |-> prevState, next |-> nextState,
   due |-> {ls[i] : i \in 1..Len(ls)},
   count |-> [c \in {"b1", "b2", "x", "y"} |-> 0], reentered |-> FALSE,
   was |-> bret, seen |-> nextState, member |-> TRUE, nested |-> "none"]

PassFrame(nextState, prevState, ls) ==
  [kind |-> "pass", cb |-> NoCb, idx |-> 1, from |-> prevState,
   next |-> nextState, due |-> Members(ls),
   count |-> [c \in Callbacks |-> 0], reentered |-> FALSE, was |-> bret,
   seen |-> nextState, member |-> TRUE, nested |-> "none"]

ListenerFrame(c, s, reg) ==
  [kind |-> "listener", cb |-> c, idx |-> 0, from |-> s,
   next |-> s, due |-> {},
   count |-> [d \in Callbacks |-> 0], reentered |-> FALSE, was |-> bret,
   seen |-> s, member |-> reg, nested |-> "none"]

Depth == Len(stack)

Top == stack[Depth]

Idle == stack = <<>>

\* Code outside the store may call it: the environment when nothing runs,
\* or the callback that is running.  A callback invoked by a nested pass
\* calls nothing: it returns or throws.
Callable == ~exc /\ (IF Idle THEN TRUE ELSE Top.kind = "listener" /\ Depth = 2)

\* The running callback may call setState.
MayReenter ==
  IF Idle THEN TRUE
  ELSE /\ Top.cb \in Reentrant
       /\ \A i \in 1..(Depth - 1) : stack[i].cb # Top.cb

PopTo(n) == SubSeq(stack, 1, n)

\* The capabilities the callers hold of each callback: how many that were
\* never called (fresh), and the one kept after a call (old): "none", "used"
\* (called, and the callback not subscribed since), or "stale" (called, and
\* the callback subscribed again since).  reg is the history of the calls:
\* the last of them was a subscribe, not a call of a capability.
NoCaps == [fresh |-> 0, old |-> "none", reg |-> FALSE]

CapLimit(c) == IF c \in Reusers THEN MaxCaps ELSE 1

\* What a step did: op and the callback cb it was about; for a run of a
\* getSnapshot callback the ref (prev) and the value returned last (was)
\* before it, and the branch taken (path); for a call of a capability,
\* whether it was called before (called), whether its callback was
\* subscribed again since (resub), whether the listeners changed (changed)
\* and the other callbacks registered before the call (rest); for a hook,
\* whether a Provider was above it (provided) and the error it threw
\* (error); for the server snapshot the value returned (ret); and the
\* events the step logged (log).
NoEv ==
  [op |-> "none", cb |-> NoCb, prev |-> Null, was |-> Null, path |-> "none",
   called |-> FALSE, resub |-> FALSE, changed |-> FALSE, rest |-> {},
   provided |-> TRUE, error |-> "none", ret |-> Null, log |-> <<>>]

\* A faulty getSnapshot, for testing the properties: it returns the state
\* the store was created with.
GetSnapshotAtCreation == [a |-> Arr(2, 1), b |-> Arr(2, 1)]

\* store.getSnapshot()
GetSnapshot == state

\* createSelectContext(initialState, debug), in a process whose NODE_ENV is
\* 'development' (mode) or not.
Create(dbg, mode) ==
  /\ state = InitialState
  /\ listeners = <<>>
  /\ stack = <<>>
  /\ exc = FALSE
  /\ caps = [c \in Raw |-> NoCaps]
  /\ bphase = [b \in Bindings |-> "idle"]
  /\ bopt = [b \in Bindings |-> "default"]
  /\ bref = [b \in Bindings |-> Null]
  /\ bret = [b \in Bindings |-> Null]
  /\ bdebug = [b \in Bindings |-> "absent"]
  /\ dev = mode
  /\ sdebug = dbg
  /\ ev = NoEv

Init == \E dbg \in DebugOptions, mode \in BOOLEAN : Create(dbg, mode)

\* createSelectContext(initialState), outside development.
InitPlain == Create("absent", FALSE)

\* ------------------------------------------------------------------- store
\* A faulty setState, for testing the properties: it notifies before it
\* assigns.
StoreAssignLate(s, fn) == s

\* setState: const nextState = fn(store.state); store.state = nextState
StoreAssign(s, fn) == ApplyFn(fn, s)

\* A faulty logging, for testing the properties: if (debug) debugLogger(...).
StoreDebugLogAny(dbg, prevState, nextState, n) ==
  IF dbg # "absent"
  THEN <<LogEvent("store", "store", "State Update", prevState, nextState, n)>>
  ELSE <<>>

\* setState: if (debug?.enabled) debugLogger({ name, prevState, nextState,
\* listeners: store.listeners.size, status: 'State Update' })
StoreDebugLog(dbg, prevState, nextState, n) ==
  IF dbg = "enabled"
  THEN <<LogEvent("store", "store", "State Update", prevState, nextState, n)>>
  ELSE <<>>

MarkReentered(st) ==
  [i \in 1..Len(st) |->
     IF st[i].kind = "pass" THEN [st[i] EXCEPT !.reentered = TRUE] ELSE st[i]]

\* The frames once callback c, at position p of the listeners, is deleted.
MarkRemoved(st, c, p) ==
  [i \in 1..Len(st) |->
     IF st[i].kind = "pass"
     THEN [st[i] EXCEPT !.due = @ \ {c}, !.idx = IdxAfterDelete(@, p)]
     ELSE st[i]]

Invoked(f) == {c \in Callbacks : f.count[c] >= 1}

\* Invocations are counted 0, 1, 2: never, once, more than once.
Bump(n) == IF n < 2 THEN n + 1 ELSE n

\* How a pass went: "empty" when no callback stayed registered from its
\* start to its end, "complete" when every such callback was invoked in it.
PassOutcome(f) ==
  IF f.due = {} THEN "empty"
  ELSE IF f.due \subseteq Invoked(f) THEN "complete" ELSE "partial"

\* listeners.forEach((listener) => listener()): the pass of the frame on top
\* visits callback c.
Visit(c) ==
  [stack EXCEPT ![Depth].idx = @ + 1, ![Depth].count[c] = Bump(@)]

\* store.setState(fn), called by the environment or by a running callback:
\* replaces the state and starts the pass over the listeners.
SetStateWith(fn) ==
  /\ Callable /\ MayReenter
  /\ state' = StoreAssign(state, fn)
  /\ stack' = Append(MarkReentered(stack),
                     PassFrame(ApplyFn(fn, state), state, listeners))
  /\ ev' = [NoEv EXCEPT !.op = "setState",
                        !.log = StoreDebugLog(sdebug, state, ApplyFn(fn, state),
                                              Size(listeners))]
  /\ UNCHANGED <<listeners, exc, caps, bphase, bopt, bref, bret, bdebug, dev, sdebug>>

\* setState by the store's direct callers, and by the owners of bindings.
SetStateStore == \E fn \in StoreFns : SetStateWith(fn)

SetState == \E fn \in Fns : SetStateWith(fn)

\* forEach reaches a callback subscribed directly and calls it.
NotifyRaw ==
  /\ ~Idle /\ ~exc /\ Top.kind = "pass"
  /\ ForEachNext(listeners, Top.idx) \in Raw
  /\ stack' = Append(Visit(ForEachNext(listeners, Top.idx)),
                     ListenerFrame(ForEachNext(listeners, Top.idx), GetSnapshot,
                                   caps[ForEachNext(listeners, Top.idx)].reg))
  /\ ev' = NoEv
  /\ UNCHANGED <<state, listeners, exc, caps, bphase, bopt, bref, bret, bdebug, dev, sdebug>>

\* A faulty callback, for testing the properties: its logging branch also
\* stores the value derived, so the ref depends on the debug option.
DerivationLoggedAssign(b, op, n) ==
  LET r == GetSnapshotCallback(b, bopt[b], bref[b], state)
      logged == bdebug[b] = "enabled" /\ dev IN
  /\ bref' = [bref EXCEPT ![b] = IF logged THEN Selector(b, state) ELSE r.ref]
  /\ bret' = [bret EXCEPT ![b] = r.ret]
  /\ ev' = [NoEv EXCEPT !.op = op, !.cb = b, !.prev = bref[b], !.was = bret[b],
                        !.path = r.path,
                        !.log = SelectorDebugLog(b, bdebug[b], dev, r, n)]

\* One run of a binding's getSnapshot callback, for the reason op, with n
\* listeners in the store.
Derivation(b, op, n) ==
  LET r == GetSnapshotCallback(b, bopt[b], bref[b], GetSnapshot) IN
  /\ bref' = [bref EXCEPT ![b] = r.ref]
  /\ bret' = [bret EXCEPT ![b] = r.ret]
  /\ ev' = [NoEv EXCEPT !.op = op, !.cb = b, !.prev = bref[b], !.was = bret[b],
                        !.path = r.path,
                        !.log = SelectorDebugLog(b, bdebug[b], dev, r, n)]

\* forEach reaches a binding's listener: React's store-change handler calls
\* the binding's getSnapshot callback and returns.
NotifyBinding ==
  /\ ~Idle /\ ~exc /\ Top.kind = "pass"
  /\ ForEachNext(listeners, Top.idx) \in Bindings
  /\ stack' = Visit(ForEachNext(listeners, Top.idx))
  /\ Derivation(ForEachNext(listeners, Top.idx), "notify", Size(listeners))
  /\ UNCHANGED <<state, listeners, exc, caps, bphase, bopt, bdebug, dev, sdebug>>

\* forEach finds no further value: setState returns to its caller.
PassDone ==
  /\ ~Idle /\ ~exc /\ Top.kind = "pass"
  /\ ForEachNext(listeners, Top.idx) = NoCb
  /\ stack' = IF Depth = 1 THEN <<>>
              ELSE [PopTo(Depth - 1) EXCEPT ![Depth - 1].nested = PassOutcome(Top)]
  /\ ev' = [NoEv EXCEPT !.op = "return"]
  /\ UNCHANGED <<state, listeners, exc, caps, bphase, bopt, bref, bret, bdebug, dev, sdebug>>

\* The running callback returns.
ListenerReturn ==
  /\ ~Idle /\ ~exc /\ Top.kind = "listener"
  /\ stack' = PopTo(Depth - 1)
  /\ ev' = NoEv
  /\ UNCHANGED <<state, listeners, exc, caps, bphase, bopt, bref, bret, bdebug, dev, sdebug>>

\* A faulty setState, for testing the properties: on an exception of a
\* listener it puts back the state it was given.
ListenerThrowRollback ==
  /\ ~Idle /\ Top.kind = "listener"
  /\ stack' = PopTo(Depth - 2)
  /\ exc' = (Depth > 2)
  /\ state' = stack[Depth - 1].from
  /\ ev' = [NoEv EXCEPT !.op = "throw"]
  /\ UNCHANGED <<listeners, caps, bphase, bopt, bref, bret, bdebug, dev, sdebug>>

\* The running callback throws, or lets the exception of its nested setState
\* through: forEach and the setState that called it are abandoned.
ListenerThrow ==
  /\ ~Idle /\ Top.kind = "listener"
  /\ stack' = PopTo(Depth - 2)
  /\ exc' = (Depth > 2)
  /\ ev' = [NoEv EXCEPT !.op = "throw"]
  /\ UNCHANGED <<state, listeners, caps, bphase, bopt, bref, bret, bdebug, dev, sdebug>>

\* The running callback catches the exception of its nested setState.
ListenerCatch ==
  /\ exc /\ Top.kind = "listener"
  /\ exc' = FALSE
  /\ stack' = [stack EXCEPT ![Depth].nested = "threw"]
  /\ ev' = NoEv
  /\ UNCHANGED <<state, listeners, caps, bphase, bopt, bref, bret, bdebug, dev, sdebug>>

\* store.subscribe(c): listeners.add(c), and the closure returned.
SubscribeCb(c) ==
  /\ Callable
  /\ caps[c].fresh < CapLimit(c)
  /\ listeners' = SetAdd(listeners, c)
  /\ caps' = [caps EXCEPT ![c].fresh = @ + 1, ![c].reg = TRUE,
                          ![c].old = IF @ = "used" THEN "stale" ELSE @]
  /\ ev' = NoEv
  /\ UNCHANGED <<state, stack, exc, bphase, bopt, bref, bret, bdebug, dev, sdebug>>

Subscribe == \E c \in Raw : SubscribeCb(c)

\* The closure subscribe returned: () => store.listeners.delete(listener).
\* called and resub say which capability is called (the history).
Cleanup(c, called, resub) ==
  /\ listeners' = SetDelete(listeners, c)
  /\ stack' = MarkRemoved(stack, c, Position(listeners, c))
  /\ ev' = [NoEv EXCEPT !.op = "unsubscribe", !.cb = c, !.called = called,
                        !.resub = resub, !.changed = (listeners' # listeners),
                        !.rest = Members(listeners) \ {c}]

\* A capability of c is called for the first time; its holder then keeps it
\* for a further call (in place of the one kept before), or drops it.
UnsubscribeFresh(c, keep) ==
  /\ Callable
  /\ caps[c].fresh > 0
  /\ keep => c \in Reusers
  /\ Cleanup(c, FALSE, FALSE)
  /\ caps' = [caps EXCEPT ![c].fresh = @ - 1, ![c].reg = FALSE,
                          ![c].old = IF keep THEN "used" ELSE @]
  /\ UNCHANGED <<state, exc, bphase, bopt, bref, bret, bdebug, dev, sdebug>>

\* The capability of c kept after a call is called again, and kept or dropped.
UnsubscribeAgain(c, keep) ==
  /\ Callable
  /\ caps[c].old # "none"
  /\ Cleanup(c, TRUE, caps[c].old = "stale")
  /\ caps' = [caps EXCEPT ![c].old = IF keep THEN "used" ELSE "none",
                          ![c].reg = FALSE]
  /\ UNCHANGED <<state, exc, bphase, bopt, bref, bret, bdebug, dev, sdebug>>

Unsubscribe == \E c \in Raw, keep \in BOOLEAN : UnsubscribeFresh(c, keep)

UnsubscribeTwice == \E c \in Raw, keep \in BOOLEAN : UnsubscribeAgain(c, keep)

\* ----------------------------------------------------------------- binding
\* A component calling useContextSelector renders for the first time, with
\* a Provider above it or not: the check of the store, useRef(null), and
\* useSyncExternalStore calls the getSnapshot callback.
MountWith(b, opt, dbg, provided) ==
  /\ Idle
  /\ bphase[b] = "idle"
  /\ IF UseContextCheck(provided) = "none"
     THEN /\ bphase' = [bphase EXCEPT ![b] = "rendered"]
          /\ bopt' = [bopt EXCEPT ![b] = opt]
          /\ bdebug' = [bdebug EXCEPT ![b] = dbg]
          /\ LET r == GetSnapshotCallback(b, opt, Null, GetSnapshot) IN
             /\ bref' = [bref EXCEPT ![b] = r.ref]
             /\ bret' = [bret EXCEPT ![b] = r.ret]
             /\ ev' = [NoEv EXCEPT !.op = "mount", !.cb = b, !.path = r.path,
                                   !.provided = provided,
                                   !.log = SelectorDebugLog(b, dbg, dev, r,
                                                            Size(listeners))]
     ELSE /\ ev' = [NoEv EXCEPT !.op = "mount", !.cb = b,
                                !.provided = provided,
                                !.error = UseContextCheck(provided)]
          /\ UNCHANGED <<bphase, bopt, bdebug, bref, bret>>
  /\ UNCHANGED <<state, listeners, stack, exc, caps, dev, sdebug>>

\* useContextSelector without debug, with options.compare or without.
Mount ==
  \E b \in Bindings, opt \in CompareOptions, provided \in BOOLEAN :
    MountWith(b, opt, "absent", provided)

\* useContextSelector with any options.
MountDebug ==
  \E b \in Bindings, opt \in CompareOptions, dbg \in DebugOptions :
    MountWith(b, opt, dbg, TRUE)

\* A component calls useContextSetState, with a Provider above it or not:
\* it gets store.setState, or the error.
UseContextSetState ==
  \E provided \in BOOLEAN :
    /\ Idle
    /\ ev' = [NoEv EXCEPT !.op = "setter", !.provided = provided,
                          !.error = UseContextCheck(provided)]
    /\ UNCHANGED <<state, listeners, stack, exc, caps, bphase, bopt, bref,
                   bret, bdebug, dev, sdebug>>

\* useSyncExternalStore reads the server snapshot of a binding, mounted or
\* not.
ServerSnapshot ==
  \E b \in Bindings, opt \in CompareOptions :
    /\ Idle
    /\ bphase[b] # "idle" => opt = bopt[b]
    /\ LET r == ServerSnapshotCallback(b, opt, bref[b], GetSnapshot) IN
       /\ bref' = [bref EXCEPT ![b] = r.ref]
       /\ ev' = [NoEv EXCEPT !.op = "server", !.cb = b, !.prev = bref[b],
                             !.was = bret[b], !.path = r.path, !.ret = r.ret]
    /\ UNCHANGED <<state, listeners, stack, exc, caps, bphase, bopt, bret,
                   bdebug, dev, sdebug>>

\* useSyncExternalStore's effect: store.subscribe(listener), then the
\* getSnapshot callback again, for a change between render and subscribe.
Attach ==
  \E b \in Bindings :
    /\ Idle
    /\ bphase[b] = "rendered"
    /\ bphase' = [bphase EXCEPT ![b] = "subscribed"]
    /\ listeners' = SetAdd(listeners, b)
    /\ Derivation(b, "attach", Size(SetAdd(listeners, b)))
    /\ UNCHANGED <<state, stack, exc, caps, bopt, bdebug, dev, sdebug>>

\* A faulty callback, for testing the properties: it normalises the state
\* it reads in place, a null field becoming the empty list.
RenderNormalising ==
  \E b \in Bindings :
    /\ Idle
    /\ bphase[b] # "idle"
    /\ state' = [state EXCEPT !.a = IF @ = Null THEN Empty0 ELSE @]
    /\ Derivation(b, "render", Size(listeners))
    /\ UNCHANGED <<listeners, stack, exc, caps, bphase, bopt, bdebug, dev, sdebug>>

\* The component renders again: the getSnapshot callback runs.
Render ==
  \E b \in Bindings :
    /\ Idle
    /\ bphase[b] # "idle"
    /\ Derivation(b, "render", Size(listeners))
    /\ UNCHANGED <<state, listeners, stack, exc, caps, bphase, bopt, bdebug, dev, sdebug>>

\* The component unmounts: React calls the function subscribe returned.
Unmount ==
  \E b \in Bindings :
    /\ Idle
    /\ bphase[b] # "idle"
    /\ bphase' = [bphase EXCEPT ![b] = "idle"]
    /\ listeners' = IF bphase[b] = "subscribed"
                    THEN SetDelete(listeners, b) ELSE listeners
    /\ bref' = [bref EXCEPT ![b] = Null]
    /\ bret' = [bret EXCEPT ![b] = Null]
    /\ bopt' = [bopt EXCEPT ![b] = "default"]
    /\ bdebug' = [bdebug EXCEPT ![b] = "absent"]
    /\ ev' = [NoEv EXCEPT !.op = "unmount", !.cb = b]
    /\ UNCHANGED <<state, stack, exc, caps, dev, sdebug>>

\* ---------------------------------------------------------- specifications
\* The store with callbacks subscribed directly.
NextStore ==
  \/ SetStateStore
  \/ NotifyRaw
  \/ PassDone
  \/ ListenerReturn
  \/ ListenerThrow
  \/ ListenerCatch
  \/ Subscribe
  \/ Unsubscribe
  \/ UnsubscribeTwice

SpecStore == InitPlain /\ [][NextStore]_vars

\* The store with selector bindings as its listeners.
NextBinding ==
  \/ SetState
  \/ NotifyBinding
  \/ PassDone
  \/ Mount
  \/ Attach
  \/ Render
  \/ Unmount
  \/ UseContextSetState
  \/ ServerSnapshot

SpecBinding == InitPlain /\ [][NextBinding]_vars

\* The transitions used where the diagnostics are observed, and where the
\* callbacks call setState themselves.
DebugFns ==
  {[f |-> "same", v |-> Null], [f |-> "a", v |-> Null], [f |-> "a", v |-> Empty0]}

SetStateDebug == \E fn \in DebugFns : SetStateWith(fn)

\* The store and its bindings with their debug options, in development and
\* outside it.
NextDebug ==
  \/ SetStateDebug
  \/ NotifyBinding
  \/ PassDone
  \/ MountDebug
  \/ Attach
  \/ Render
  \/ Unmount

SpecDebug == Init /\ [][NextDebug]_vars

\* The store with selector bindings and callbacks subscribed directly among
\* its listeners, the callbacks calling setState while a pass runs; no
\* callback throws.
NextNested ==
  \/ SetStateDebug
  \/ NotifyRaw
  \/ NotifyBinding
  \/ PassDone
  \/ ListenerReturn
  \/ SubscribeCb("x")
  \/ Mount
  \/ Attach
  \/ Unmount

SpecNested == InitPlain /\ [][NextNested]_vars

\* Both together: the store with both kinds of listener.  Its states are
\* the product of those of the two specifications above, which are the ones
\* checked.
Next ==
  \/ NextStore
  \/ NextBinding
  \/ NextDebug

Spec == Init /\ [][Next]_vars

\* ------------------------------------------------------------- properties
\* A derivation of a mounted binding after its first one.
Rederived == ev.op \in {"notify", "attach", "render"}

\* The pass on top of the stack has visited every value: setState is about
\* to return.
Exhausted ==
  ~Idle /\ ~exc /\ Top.kind = "pass" /\ ForEachNext(listeners, Top.idx) = NoCb

\* C1: when the store notifies a binding, the binding delivers a value other
\* than the one it delivered before if and only if its equality judges the
\* value derived from the new state changed from the one delivered before.
C1_SelectiveRedelivery ==
  ev.op = "notify" =>
    ((bret[ev.cb] # ev.was)
       <=> ~Compare(bopt[ev.cb], ev.was, Selector(ev.cb, state)))

\* C2: when one setState takes the state from S1 to S2 and the derived value
\* of binding p is equal across S1 and S2 under p's equality while that of
\* binding q is not, both are notified once, p still delivers what it
\* delivered before and q delivers its value derived from S2.
C2_IndependentConclusions ==
  Exhausted =>
    \A p, q \in Top.due \cap Bindings :
      ( /\ p # q
        /\ Compare(bopt[p], Selector(p, Top.from), Selector(p, Top.next))
        /\ ~Compare(bopt[q], Selector(q, Top.from), Selector(q, Top.next)) )
      => /\ Top.count[p] = 1
         /\ Top.count[q] = 1
         /\ bret[p] = Top.was[p]
         /\ bret[q] = Selector(q, Top.next)

\* C3: for a binding given a custom equality predicate, the predicate alone
\* decides: when it returns true for (value delivered before, value derived
\* now) the binding delivers the value it delivered before, and when it
\* returns false it delivers the value derived now.
C3_CustomEqualityDecides ==
  (Rederived /\ bopt[ev.cb] = "sameLength") =>
    IF SameLength(ev.was, Selector(ev.cb, state))
    THEN bret[ev.cb] = ev.was
    ELSE bret[ev.cb] = Selector(ev.cb, state)

\* C4: whenever the equality judges that the value derived now has not
\* changed from the one delivered before, the binding returns the reference
\* it delivered before and leaves its last delivered value as it was.
C4_DeliveredValueStable ==
  (Rederived /\ Compare(bopt[ev.cb], ev.was, Selector(ev.cb, state))) =>
    /\ bret[ev.cb] = ev.was
    /\ bref[ev.cb] = ev.prev

\* C5: while no nested setState has replaced the state again, getSnapshot
\* returns the state the transition of the running setState produced, up to
\* the return of that setState, and the callback the pass is running found
\* that state.
C5_SnapshotIsTransitionResult ==
  \A i \in 1..Depth :
    (stack[i].kind = "pass" /\ ~stack[i].reentered) =>
      /\ GetSnapshot = stack[i].next
      /\ (i < Depth => stack[i + 1].seen = stack[i].next)

C5_Witness ==
  /\ Depth = 4
  /\ stack[3].kind = "pass" /\ ~stack[3].reentered
  /\ stack[3].next # stack[3].from
  /\ stack[1].reentered /\ stack[1].next # stack[3].next

\* C6: when a setState returns, every callback registered from the start of
\* its pass to its end has been invoked in the pass, also when the
\* transition returned the state it was given.
C6_AlwaysNotifies ==
  Exhausted => Top.due \subseteq Invoked(Top)

C6_Witness ==
  /\ Exhausted
  /\ Top.next = Top.from
  /\ Top.due = {"x", "y"}
  /\ Invoked(Top) = {"x", "y"}

\* C7: a setState called by a running callback has run its whole pass, on
\* the state it produced, when control is back in that callback; until then
\* the pass that invoked the callback stays where it was.
C7_Reentrant ==
  /\ \A i \in 1..Depth :
       stack[i].kind = "listener" => stack[i].nested # "partial"
  /\ \A i \in 1..(Depth - 1) :
       stack[i].kind = "pass" =>
         /\ stack[i + 1].kind = "listener"
         /\ stack[i].count[stack[i + 1].cb] >= 1
  /\ \A i \in 2..Depth :
       stack[i].kind = "pass" =>
         /\ stack[i - 1].kind = "listener"
         /\ (i < Depth => stack[i + 1].seen = stack[i].next)

C7_Witness ==
  /\ Depth = 2
  /\ Top.nested = "complete"
  /\ stack[1].reentered
  /\ Members(listeners) = {"x", "y"}

\* C8: once the function subscribe returned has been called, the callback is
\* not among the listeners and the other listeners are as they were; a
\* callback whose last call was such a call is not among the listeners, and
\* every callback a pass runs had a subscription in force when invoked.
C8_Deactivated ==
  /\ ev.op = "unsubscribe" => Members(listeners) = ev.rest
  /\ \A c \in Raw : ~caps[c].reg => c \notin Members(listeners)
  /\ \A i \in 1..Depth : stack[i].kind = "listener" => stack[i].member

C8_Witness ==
  /\ Exhausted /\ Depth = 1
  /\ caps["x"].old = "used"
  /\ Top.count["x"] = 0
  /\ Top.count["y"] = 1

\* C9 as stated: a further call of the function subscribe returned leaves
\* the listeners as they were.
C9_SecondCallChangesNothing ==
  (ev.op = "unsubscribe" /\ ev.called) => ~ev.changed

\* C9: a further call of the function subscribe returned leaves the
\* listeners as they were unless its callback was subscribed again since
\* the function's last call, and it never removes another callback.
C9_NoOpUnlessResubscribed ==
  (ev.op = "unsubscribe" /\ ev.called) =>
    /\ ~ev.resub => ~ev.changed
    /\ ev.rest \subseteq Members(listeners)

C9_Witness ==
  /\ ev.op = "unsubscribe" /\ ev.called /\ ~ev.resub
  /\ ev.cb = "x"
  /\ listeners = <<"y">>

\* C10 as stated: each subscribe of the same callback is a registration of
\* its own, so the callback stays registered while a function returned by
\* one of its subscribes has not been called.
C10_IndependentRegistrations ==
  \A c \in Raw : caps[c].fresh >= 1 => c \in Members(listeners)

\* C10: subscribing the same callback again yields no second registration:
\* the listeners hold a callback once, a pass invokes a callback that stays
\* registered once, and the callback is registered exactly when the last
\* call about it was a subscribe.
C10_OneRegistration ==
  /\ \A i, j \in 1..Len(listeners) : listeners[i] = listeners[j] => i = j
  /\ \A c \in Raw : c \in Members(listeners) <=> caps[c].reg
  /\ Exhausted => \A c \in Top.due : Top.count[c] = 1

C10_Witness ==
  /\ Exhausted
  /\ caps["x"].fresh = 2
  /\ "x" \in Top.due
  /\ Top.count["x"] = 1

\* C11: a capability called while a pass runs leaves the iteration sound:
\* in every running pass the callbacks registered from its start and not yet
\* invoked are still ahead of forEach, those invoked are behind it and were
\* invoked once; when the pass is done each of them was invoked once; and
\* the callback removed is not among the listeners.
C11_UnsubscribeMidPass ==
  /\ \A i \in 1..Depth :
       stack[i].kind = "pass" =>
         \A c \in stack[i].due :
           /\ c \in Members(listeners)
           /\ stack[i].count[c] <= 1
           /\ stack[i].count[c] = 0 <=> Position(listeners, c) >= stack[i].idx
  /\ Exhausted => \A c \in Top.due : Top.count[c] = 1
  /\ (ev.op = "unsubscribe" /\ ~Idle) =>
       /\ ev.cb \notin Members(listeners)
       /\ ~exc

C11_Witness ==
  /\ Exhausted
  /\ listeners = <<"y">>
  /\ Top.due = {"y"}
  /\ Top.count["x"] = 1
  /\ Top.count["y"] = 1
  /\ Top.idx = 2

\* C12: the first derivation of a binding, whenever it is mounted, returns
\* the value derived from the state the store has then, and keeps it as the
\* last delivered value.
C12_FirstActivationCurrent ==
  (ev.op = "mount" /\ ev.error = "none") =>
    /\ bret[ev.cb] = Selector(ev.cb, state)
    /\ bref[ev.cb] = Selector(ev.cb, state)

C12_Witness ==
  /\ ev.op = "mount" /\ ev.cb = "b1" /\ ev.error = "none"
  /\ state.a = Empty0
  /\ bret["b1"] = Empty0 /\ bref["b1"] = Empty0

\* C13: the default equality is Object.is: equal exactly when the two values
\* are the same primitive or the same reference, NaN being equal to NaN and
\* +0 not to -0; a binding without compare whose last delivered value is not
\* null keeps that value exactly when the value derived now is equal to it
\* in this sense.
C13_DefaultEquality ==
  /\ \A x, y \in Values : Compare("default", x, y) <=> (x = y)
  /\ Compare("default", NaN, NaN)
  /\ ~Compare("default", PosZero, NegZero) /\ ~Compare("default", NegZero, PosZero)
  /\ (Rederived /\ bopt[ev.cb] = "default" /\ ev.prev # Null) =>
       LET n == Selector(ev.cb, state) IN
       /\ (ev.prev = NaN /\ n = NaN) => ev.path = "same"
       /\ (ev.prev \in {PosZero, NegZero} /\ n \in {PosZero, NegZero} /\ n # ev.prev)
            => ev.path = "new"
       /\ ev.path = "same" <=> ev.prev = n

C13_Witness ==
  /\ ev.op = "notify" /\ bopt[ev.cb] = "default"
  /\ ev.prev = PosZero
  /\ Selector(ev.cb, state) = NegZero
  /\ bret[ev.cb] = NegZero

\* A run of the getSnapshot callback of a mounted binding, the first one
\* included.
Derived == ev.op \in {"mount", "notify", "attach", "render"} /\ ev.error = "none"

\* C14: a binding mounted without compare, with a debug option or without,
\* is mounted without error and compares with Object.is, and its callback
\* never fails for lack of a compare function; a binding mounted without
\* debug logs nothing.
C14_OptionsOptional ==
  Derived =>
    /\ bopt[ev.cb] = "default" =>
         /\ ev.path \in {"initial", "same", "new"}
         /\ ev.prev # Null =>
              (ev.path = "same" <=> ObjectIs(ev.prev, Selector(ev.cb, state)))
    /\ bdebug[ev.cb] = "absent" => ev.log = <<>>

C14_Witness ==
  /\ ev.op = "notify" /\ dev
  /\ bopt[ev.cb] = "default" /\ bdebug[ev.cb] = "enabled"
  /\ ev.prev = One1 /\ state.a = Empty0
  /\ ev.path = "new" /\ Len(ev.log) = 1

\* C15: useContextSelector and useContextSetState called without a Provider
\* above throw 'Context Provider is missing', and that is all they do: no
\* callback has run, nothing is logged, and the store, its listeners and the
\* bindings are as they were; with a Provider they do not throw.
C15_MissingStore ==
  [][ev'.op \in {"mount", "setter"} =>
       IF ev'.provided
       THEN ev'.error = "none"
       ELSE /\ ev'.error = "Context Provider is missing"
            /\ ev'.path = "none"
            /\ ev'.log = <<>>
            /\ UNCHANGED <<state, listeners, stack, bphase, bopt, bref, bret,
                           bdebug>>]_vars

C15_Witness ==
  /\ ev.op = "mount" /\ ~ev.provided
  /\ ev.error = "Context Provider is missing"
  /\ bphase[ev.cb] = "idle"
  /\ ev.cb \notin Members(listeners)
  /\ listeners # <<>>
  /\ state.a = Empty0

\* C16: the server snapshot returns the value derived from the state the
\* store has, and that is all it does: it does not go through the equality,
\* logs nothing, and the store, its listeners, the ref of the binding and
\* the value its getSnapshot callback returned last are as they were.
C16_ServerSnapshot ==
  [][ev'.op = "server" =>
       /\ ev'.ret = Selector(ev'.cb, state)
       /\ ev'.path = "server"
       /\ ev'.log = <<>>
       /\ UNCHANGED <<state, listeners, stack, bphase, bopt, bref, bret,
                      bdebug>>]_vars

C16_Witness ==
  /\ ev.op = "server" /\ ev.cb = "b1"
  /\ ev.ret = Empty0
  /\ bref["b1"] = One1 /\ bret["b1"] = One1
  /\ "b1" \notin Members(listeners)

C18_LogsOnlyOnChange ==
  (dev /\ ev.op = "notify" /\ bdebug[ev.cb] = "enabled"
     /\ bopt[ev.cb] = "default") =>
    IF Selector(ev.cb, Top.from) = Selector(ev.cb, Top.next)
    THEN ev.log = <<>>
    ELSE Len(ev.log) = 1

\* C19: outside development no step logs anything, whatever the debug
\* options of the store and of the bindings.
C19_SilentOutsideDevelopment ==
  ~dev => ev.log = <<>>

Core == <<state, listeners, bref, bret>>

\* C21: the diagnostics alter nothing: every step takes the store's state,
\* its listeners, and each binding's ref and returned value to what the
\* operation makes of them as a function of these and of the compare option
\* alone, in which the debug options and NODE_ENV do not occur, so that a
\* run with the diagnostics enabled and the run of the same operations with
\* them disabled pass through the same values; and no step changes the debug
\* option of the store or NODE_ENV.
C21_DiagnosticsInert ==
  [][ /\ UNCHANGED <<dev, sdebug>>
      /\ ev'.op \in {"notify", "attach", "render"} =>
           LET b == ev'.cb
               q == GetSnapshotCallback(b, bopt[b], bref[b], state) IN
           /\ bref' = [bref EXCEPT ![b] = q.ref]
           /\ bret' = [bret EXCEPT ![b] = q.ret]
           /\ state' = state
           /\ listeners' = IF ev'.op = "attach" THEN SetAdd(listeners, b)
                           ELSE listeners
      /\ (ev'.op = "mount" /\ ev'.error = "none") =>
           LET b == ev'.cb
               q == GetSnapshotCallback(b, bopt'[b], Null, state) IN
           /\ bref' = [bref EXCEPT ![b] = q.ref]
           /\ bret' = [bret EXCEPT ![b] = q.ret]
           /\ UNCHANGED <<state, listeners>>
      /\ ev'.op = "setState" =>
           /\ \E fn \in DebugFns :
                /\ state' = ApplyFn(fn, state)
                /\ stack' = Append(MarkReentered(stack),
                                   PassFrame(ApplyFn(fn, state), state, listeners))
           /\ UNCHANGED <<listeners, bref, bret>>
      /\ ev'.op = "unmount" =>
           /\ listeners' = SetDelete(listeners, ev'.cb)
           /\ bref' = [bref EXCEPT ![ev'.cb] = Null]
           /\ bret' = [bret EXCEPT ![ev'.cb] = Null]
           /\ state' = state
      /\ ev'.op = "return" => UNCHANGED Core
      /\ ev'.log # <<>> => ev'.op \in {"setState", "mount", "notify", "attach", "render"}
    ]_vars

C21_Witness ==
  /\ dev /\ sdebug = "enabled"
  /\ ev.op = "notify" /\ bdebug[ev.cb] = "enabled" /\ bopt[ev.cb] = "sameLength"
  /\ ev.prev = Empty0 /\ state.a = Null
  /\ ev.path = "same"
  /\ bref[ev.cb] = Empty0

\* The listeners are a set, and hold the callbacks whose last call was a
\* subscribe.
WellFormed ==
  /\ \A i, j \in 1..Len(listeners) : listeners[i] = listeners[j] => i = j
  /\ \A c \in Raw : c \in Members(listeners) <=> caps[c].reg

\* C22: a callback that throws while a pass runs leaves the store sound:
\* the throw abandons the pass and the setState that ran it and nothing
\* else; the state stays the one the last transition produced (that of the
\* abandoned setState unless a nested one replaced it since), the listeners
\* and the capabilities of the callers stay as they were before the throw,
\* and the store can be called again as soon as nothing runs.
C22_ThrowLeavesStoreSound ==
  [][ev'.op = "throw" =>
       /\ state' = state
       /\ ~stack[Depth - 1].reentered => state' = stack[Depth - 1].next
       /\ listeners' = listeners
       /\ caps' = caps
       /\ stack' = SubSeq(stack, 1, Depth - 2)
       /\ WellFormed'
       /\ exc' <=> stack' # <<>>
       /\ stack' = <<>> => Callable']_vars

C22_Witness ==
  /\ ev.op = "throw" /\ Idle /\ ~exc
  /\ listeners = <<"x", "y">>
  /\ state.a = Empty0
  /\ caps["x"].fresh = 2

\* C23: a derivation of a mounted binding after its first one never takes
\* the first-render branch: it decides by compare on the value delivered
\* last and the value derived now, also when the value delivered last is
\* null.
C23_FirstBranchOnce ==
  Rederived =>
    /\ ev.path # "initial"
    /\ ev.path = "same" <=> Compare(bopt[ev.cb], ev.was, Selector(ev.cb, state))

\* C24: every 'New Selected State' event carries as its previous value the
\* value the binding had delivered before the derivation and as its next
\* value the value derived, so that compare judges the two not equal.
C24_EventCarriesPrevious ==
  \A i \in 1..Len(ev.log) :
    ev.log[i].status = "New Selected State" =>
      /\ ev.log[i].prev = ev.was
      /\ ev.log[i].next = Selector(ev.cb, state)
      /\ ~Compare(bopt[ev.cb], ev.log[i].prev, ev.log[i].next)

\* C25: the bindings and the snapshot reads write nothing of the store: a
\* run of a getSnapshot callback (first render, notification, render), the
\* server snapshot and the hooks leave store.state and store.listeners as
\* they were; the state changes only in setState, which leaves the
\* listeners alone, and the listeners change only by the subscribe of a
\* binding and by the function it returned, by that binding's listener and
\* nothing else.
C25_BindingsOnlyRead ==
  [][ /\ state' # state => ev'.op = "setState"
      /\ listeners' # listeners => ev'.op \in {"attach", "unmount"}
      /\ ev'.op \in {"mount", "notify", "render", "server", "setter", "return"}
           => UNCHANGED <<state, listeners>>
      /\ ev'.op = "attach" =>
           /\ state' = state
           /\ listeners' = SetAdd(listeners, ev'.cb)
      /\ ev'.op = "unmount" =>
           /\ state' = state
           /\ listeners' = SetDelete(listeners, ev'.cb)
      /\ ev'.op = "setState" => listeners' = listeners
    ]_vars

C25_Witness ==
  /\ ev.op = "render" /\ ev.path = "new"
  /\ ev.prev = One1 /\ bref[ev.cb] = Empty0
  /\ state.a = Empty0
  /\ ev.cb = "b1" /\ listeners = <<"b2">>

\* C26: within one pass of setState each callback is invoked at most once,
\* whatever the callbacks subscribe and unsubscribe while the pass runs.
C26_AtMostOncePerPass ==
  \A i \in 1..Depth :
    stack[i].kind = "pass" => \A c \in Callbacks : stack[i].count[c] <= 1

\* C27: when an outermost setState has run its pass, the setState calls of
\* the callbacks it ran included, and no callback threw, every subscribed
\* binding has as its ref, and has returned last, a value its compare
\* judges equal to the value derived from the state the store has now.
C27_NoStaleValue ==
  ((Exhausted /\ Depth = 1) \/ (Idle /\ ev.op = "return")) =>
    \A b \in Bindings :
      bphase[b] = "subscribed" =>
        /\ bret[b] = bref[b]
        /\ Compare(bopt[b], bref[b], Selector(b, state))

C27_Witness ==
  /\ Exhausted /\ Depth = 1
  /\ Top.reentered
  /\ Top.count["x"] = 1 /\ Top.count["b1"] = 1
  /\ bphase["b1"] = "subscribed" /\ bopt["b1"] = "sameLength"
  /\ bref["b1"] = Empty0 /\ state.a = Null
  /\ Top.from.a = One1

====
